---- MODULE Spec2Model ----
(***************************************************************************)
(* Model of the dashboard's API routes (Next.js route handlers) that proxy *)
(* the relay backend: the rerun and fix-task dispatch routes and the       *)
(* artifact route.  Every call is a process; its steps are the stretches   *)
(* of the handler between two awaits.  The relay backend is the            *)
(* environment: it answers each request the routes send.                   *)
(***************************************************************************)
EXTENDS Integers, Sequences, FiniteSets, TLC

(* ---------------------------- bounds ---------------------------------- *)
MaxCalls == 2        \* number of route invocations in one behaviour

CallIds == 1..MaxCalls

(* ------------------------- program constants -------------------------- *)
RELAY_API_URL == "http://localhost:8050"
chars == "abcdefghijklmnopqrstuvwxyz0123456789"
DefaultLength == 8
allowed == <<"patch.diff", "stdout.log", "stderr.log", "result.json">>

(* Math.random() returns a double in [0,1); it is modelled as n/RandDen    *)
(* with n in 0..RandDen-1.                                                 *)
RandDen == 1000

(* ------------------------------ inputs -------------------------------- *)
SourceRuns == {"r1", "r22"}
MissingRun == "zz"
Filenames == {"patch.diff", "stdout.log", "stderr.log", "result.json",
              "conversation.jsonl", "../etc/passwd", "notes.txt"}
NoParent == "null"

(* The draw sequences of one generateRandomId call, as numerators over     *)
(* RandDen: the lowest draw 0.0 eight times, and draws spread over [0,1)   *)
(* up to the highest, 0.999.                                               *)
RandomDraws ==
  { <<0, 0, 0, 0, 0, 0, 0, 0>>,
    <<333, 444, 555, 666, 777, 888, 999, 110>> }

(* Non-success answers of the relay during an outage.                      *)
OutageResponses == { [status |-> 500, body |-> "upstream down"] }

(* JSON bodies posted to the fix-task route (none = no body): the run      *)
(* detail page, its only caller, posts without a body.                     *)
FixBodies == { "none" }

(* The ActionItems a batch is made of, and the batches posted to the       *)
(* submit-tasks route: every list of at most MaxItems of them.             *)
MaxItems == 2
ActionItems ==
  { [task |-> "add tests", source_feature |-> "f1", priority |-> 1,
     project |-> "radar", category |-> "dev"],
    [task |-> "review pricing", source_feature |-> "f2", priority |-> 2,
     project |-> "biz", category |-> "business"] }
Batches == UNION { [1..k -> ActionItems] : k \in 0..MaxItems }
Versions == { "v1" }

(* Query parameters of a request to the runs list, runs stats and          *)
(* learning stats routes ("" = parameter absent).  The values consist of   *)
(* characters that URLSearchParams and encodeURIComponent leave as they    *)
(* are.                                                                    *)
NoQuery ==
  [limit |-> "", cursor |-> "", status |-> "", trace_id |-> "",
   provider |-> "", model |-> "", since |-> ""]
RunQueries ==
  { NoQuery,
    [NoQuery EXCEPT !.limit = "50"],
    [NoQuery EXCEPT !.limit = "50", !.cursor = "c1", !.status = "failed",
                    !.trace_id = "tr_r1", !.since = "24h"],
    [NoQuery EXCEPT !.limit = "50", !.provider = "openai", !.model = "gpt4"] }
SinceQueries == { NoQuery, [NoQuery EXCEPT !.since = "24h"] }

(* The number of checkRelay calls a page makes: the one at mount and the   *)
(* ticks of the 30 s interval.                                             *)
MaxChecks == 2

(* What the relay's /health does when the health route fetches it.         *)
HealthOutcomes == {"ok", "not_ok", "throw"}

(* The pages with a submission form: the two tabs of the actions page and  *)
(* the release page; MaxSubmits caps the clicks on the submit button.      *)
Views == {"claude", "codex", "release"}
MaxSubmits == 2
NoPageResult == [success |-> FALSE, message |-> "null"]
NoClick == [view |-> "none", selected |-> <<>>, items |-> <<>>]

(* /data/analysis.json and /data/codex_analysis.json as loaded by the      *)
(* actions page, and the Codex release loaded by the release page.  The    *)
(* Japanese prefix of a feature proposal is written "proposal".            *)
ClaudeData ==
  [version |-> "v1",
   action_items |->
     << [task |-> "add tests", source_feature |-> "f1", priority |-> 1,
         project |-> "radar", category |-> "dev"],
        [task |-> "review pricing", source_feature |-> "f2", priority |-> 2,
         project |-> "biz", category |-> "business"] >>,
   dev_improvements |-> <<>>]
CodexData ==
  [version |-> "rust-v1",
   action_items |->
     << [task |-> "enable sandbox mode", source_feature |-> "proposal: sandbox",
         priority |-> 1, project |-> "infra", category |-> "tooling"] >>,
   dev_improvements |->
     << [suggestion |-> "sandbox mode isolates runs",
         source_feature |-> "proposal sandbox", project |-> "infra"],
        [suggestion |-> "exec policy changed",
         source_feature |-> "affected exec", project |-> "infra"],
        [suggestion |-> "profile flag for codex",
         source_feature |-> "proposal profile", project |-> "infra"] >>]
CodexReleaseData ==
  [version |-> "rust-v1",
   opportunities |-> << [feature |-> "sandbox", benefit |-> "isolation",
                         projects |-> <<"infra">>] >>,
   action_items |-> << [task |-> "update config", source_feature |-> "r1",
                        category |-> "tooling"] >>]

(* What POST /api/submit-tasks answers to a page.                          *)
FormAnswers ==
  { [success |-> TRUE, message |-> "tasks submitted"],
    [success |-> FALSE, message |-> "tasks submitted (1 failed)"] }

(* The runs page: the status filters, the cap on fetchRuns calls and what  *)
(* GET /api/runs answers (has_more, next_cursor).                          *)
StatusFilters == {"all", "completed", "failed"}
MaxFetches == 3
RunsAnswers ==
  { [has_more |-> FALSE, next_cursor |-> ""],
    [has_more |-> TRUE, next_cursor |-> "c1"],
    [has_more |-> TRUE, next_cursor |-> "c2"] }

(* The run detail page: the cap on handleRerun calls and on handleFixTask  *)
(* calls, the two buttons that call handleRerun and what the rerun and     *)
(* fix-task routes answer.                                                 *)
MaxReruns == 2
RerunButtons == {"retry", "rerun"}
RerunAnswers ==
  { [ok |-> TRUE, trace_id |-> "tr_rerun_r1_aaaaaaaa", error |-> ""],
    [ok |-> FALSE, trace_id |-> "", error |-> "Failed to submit task: upstream down"] }

(* Non-success answers of the relay to a submitted item.                   *)
ItemFailures == { [status |-> 500, body |-> "upstream down"],
                  [status |-> 422, body |-> "unknown project"] }

VARIABLES
  pc,        \* pc[c]: position of call c in its handler
  kind,      \* kind[c]: "rerun", "fix" or "artifact"
  run_id,    \* run_id[c]: the run_id route parameter
  filename,  \* filename[c]: the filename route parameter (artifact route)
  req,       \* req[c]: the request of c in flight to the relay, or NoReq
  resp,      \* resp[c]: the relay's answer waiting for c, or NoResp
  newTraceId,\* newTraceId[c]: the trace id minted by the rerun route
  result,    \* result[c]: the NextResponse returned to the caller
  upstream,  \* upstream[c]: the relay's answers c has received so far (history)
  sent,      \* every request the routes sent to the relay (call = sender)
  tasks,     \* relay: the tasks accepted, in order
  runs,      \* relay: the run store, run_id -> Run
  submitPc,  \* position of the submit-tasks call in its handler
  items,     \* submit-tasks: the items of the request body
  version,   \* submit-tasks: the version of the request body
  results,   \* submit-tasks: the per-item results pushed so far
  submitReq, \* submit-tasks: the request in flight to the relay, or NoReq
  submitResp,\* submit-tasks: the relay's answer waiting, or NoResp
  submitSent,\* submit-tasks: the request bodies sent, in order (history)
  submitUpstream, \* submit-tasks: the relay's answers received (history)
  submitResult,   \* submit-tasks: the NextResponse returned to the caller
  query,     \* query[c]: the query parameters call c received (proxy routes)
  relayStatus, \* pages: the RelayStatus state
  polling,   \* pages: "init" before the effect ran, "running", "cancelled"
  checks,    \* pages: the checkRelay calls started so far, in order
  lastDone,  \* pages: index of the checkRelay call that completed last (history)
  view,      \* form: "claude" or "codex" (tabs of the actions page), "release"
  selected,  \* form: the selected keys, in insertion order (a JS Set)
  submitting,\* form: the submitting flag
  pageResult,\* form: the submitResult state of the page
  submits,   \* form: the submission requests sent so far, in order
  lastClick, \* form: what the last handleSubmit call saw and picked (history)
  statusFilter, \* runs page: the statusFilter state
  runItems,  \* runs page: the displayed list, as the pages it was built from
  hasMore,   \* runs page: the hasMore state
  nextCursor,\* runs page: the nextCursor state ("" = null)
  loading,   \* runs page: the loading state
  fetches,   \* runs page: the fetchRuns calls so far, in order
  rerunning, \* run detail page: the rerunning flag
  rerunError,\* run detail page: the rerunError state ("" = null)
  navigated, \* run detail page: router.push has been called
  reruns,    \* run detail page: the handleRerun calls so far, in order
  runState,  \* run detail page: "loading", or the loaded run "passed"/"failed"
  creatingFixTask, \* run detail page: the creatingFixTask flag
  fixTasks   \* run detail page: the handleFixTask calls so far, in order

submitVars == <<submitPc, items, version, results, submitReq, submitResp,
                submitSent, submitUpstream, submitResult>>

proxyVars == <<query>>

healthVars == <<relayStatus, polling, checks, lastDone>>

formVars == <<view, selected, submitting, pageResult, submits, lastClick>>

runsPageVars == <<statusFilter, runItems, hasMore, nextCursor, loading, fetches>>

detailVars == <<rerunning, rerunError, navigated, reruns, runState, creatingFixTask, fixTasks>>

pageVars == <<healthVars, formVars, runsPageVars, detailVars>>

routeVars == <<pc, kind, run_id, filename, req, resp, newTraceId, result,
               upstream, sent, tasks, runs, submitVars, proxyVars>>

\* what the relay status client and the submission form leave alone
offHealthVars == <<routeVars, formVars, runsPageVars, detailVars>>
offFormVars == <<routeVars, healthVars, runsPageVars, detailVars>>
offRunsPageVars == <<routeVars, healthVars, formVars, detailVars>>
offDetailVars == <<routeVars, healthVars, formVars, runsPageVars>>

vars == <<pc, kind, run_id, filename, req, resp, newTraceId, result, upstream,
          sent, tasks, runs, submitVars, proxyVars, pageVars>>

NoReq == [method |-> "none"]
NoResp == [type |-> "none"]
NoResult == [status |-> 0]

(* ----------------------------- helpers -------------------------------- *)
\* String.prototype.charAt: "" when the index is out of range
charAt(s, i) == IF i >= 0 /\ i < Len(s) THEN SubSeq(s, i + 1, i + 1) ELSE ""

\* Math.floor(Math.random() * chars.length) for the draw n/RandDen
FloorRandomTimes(n, len) == (n * len) \div RandDen

RECURSIVE GenLoop(_, _, _, _)
GenLoop(i, length, draws, res) ==
  IF i < length
    THEN GenLoop(i + 1, length, draws,
                 res \o charAt(chars, FloorRandomTimes(draws[i + 1], Len(chars))))
    ELSE res

\* variant: the loop stops one character early
generateRandomId_short(length, draws) == GenLoop(0, length - 1, draws, "")

generateRandomId(length, draws) == GenLoop(0, length, draws, "")

\* Response.ok
ok(status) == status >= 200 /\ status <= 299

\* String.prototype.endsWith
endsWith(s, suffix) ==
  Len(s) >= Len(suffix) /\ SubSeq(s, Len(s) - Len(suffix) + 1, Len(s)) = suffix

\* Array.prototype.includes
includes(arr, x) == \E i \in 1..Len(arr) : arr[i] = x

\* String.prototype.includes
Contains(s, sub) ==
  \E i \in 1..(Len(s) - Len(sub) + 1) : SubSeq(s, i, i + Len(sub) - 1) = sub

Digits == "0123456789"
\* decimal rendering of a small natural number
NatToStr(n) == IF n < 10 THEN charAt(Digits, n)
               ELSE charAt(Digits, n \div 10) \o charAt(Digits, n % 10)

(* --------------------- requests built by the routes ------------------- *)
NoBody == [none |-> TRUE]

\* variant: the task fetch is sent with a writing method
RerunTaskRequest_post(rid) ==
  [method |-> "POST",
   url    |-> RELAY_API_URL \o "/runs/" \o rid \o "/task",
   body   |-> NoBody]

\* rerun route, step 1: GET the original task
RerunTaskRequest(rid) ==
  [method |-> "GET",
   url    |-> RELAY_API_URL \o "/runs/" \o rid \o "/task",
   body   |-> NoBody]

\* rerun route, step 2: the new trace id tr_rerun_<old_run_id>_<rand>
MintTraceId(rid, draws) ==
  "tr_rerun_" \o rid \o "_" \o generateRandomId(DefaultLength, draws)

\* variant: the submitted task does not carry its lineage
RerunSubmitRequest_noparent(rid, payload, traceId) ==
  [method |-> "POST",
   url    |-> RELAY_API_URL \o "/tasks",
   body   |-> [user_id       |-> payload.user_id,
               target        |-> payload.target,
               content       |-> payload.content,
               project_root  |-> payload.project_root,
               trace_id      |-> traceId,
               parent_run_id |-> NoParent]]

\* rerun route, step 3: POST /tasks
RerunSubmitRequest(rid, payload, traceId) ==
  [method |-> "POST",
   url    |-> RELAY_API_URL \o "/tasks",
   body   |-> [user_id       |-> payload.user_id,
               target        |-> payload.target,
               content       |-> payload.content,
               project_root  |-> payload.project_root,
               trace_id      |-> traceId,
               parent_run_id |-> rid]]

\* variant: the upstream body is swallowed
RerunTaskError_generic(r) ==
  [status |-> r.status,
   body   |-> [error |-> "Failed to get original task"]]

\* rerun route: the answer when the task fetch is not ok
RerunTaskError(r) ==
  [status |-> r.status,
   body   |-> [error |-> "Failed to get original task: " \o r.body]]

\* variant: every upstream failure is reported as 502
RerunSubmitError_gateway(r) ==
  [status |-> 502,
   body   |-> [error |-> "Failed to submit task: " \o r.body]]

\* rerun route: the answer when the submission is not ok
RerunSubmitError(r) ==
  [status |-> r.status,
   body   |-> [error |-> "Failed to submit task: " \o r.body]]

\* fix-task route: the answer when the relay's response is not ok
FixTaskError(r) ==
  [status |-> r.status,
   body   |-> [error |-> "Relay API error: " \o r.body]]

\* the catch branch of the rerun route
RerunCatch == [status |-> 500, body |-> [error |-> "Failed to rerun task"]]

Targets == SourceRuns \cup {MissingRun}

Send(c, r) == /\ req' = [req EXCEPT ![c] = r]
              /\ sent' = sent \cup {[call |-> c, method |-> r.method,
                                       url |-> r.url, body |-> r.body]}

\* calls are numbered in the order in which they arrive
Arrives(c) == pc[c] = "idle" /\ \A d \in CallIds : d < c => pc[d] # "idle"

\* the awaited fetch settles: the handler takes the relay's answer
Receive(c) == /\ resp' = [resp EXCEPT ![c] = NoResp]
              /\ upstream' = [upstream EXCEPT ![c] = Append(@, resp[c])]

Finish(c, res) == /\ result' = [result EXCEPT ![c] = res]
                  /\ pc' = [pc EXCEPT ![c] = "done"]

(* ------------------------------ Init ---------------------------------- *)
SourceRun(r) ==
  [run_id        |-> r,
   trace_id      |-> "tr_" \o r,
   task_id       |-> "task_" \o r,
   status        |-> "failed",
   parent_run_id |-> NoParent,
   artifacts     |-> IF r = "r1"
                       THEN {"patch.diff", "stdout.log", "stderr.log",
                             "result.json", "conversation.jsonl"}
                       ELSE {"stdout.log"},
   payload       |-> [user_id      |-> "u1",
                      target       |-> "claude",
                      content      |-> "fix ci of " \o r,
                      project_root |-> "/repo"]]

Init ==
  /\ pc = [c \in CallIds |-> "idle"]
  /\ kind = [c \in CallIds |-> "none"]
  /\ run_id = [c \in CallIds |-> ""]
  /\ filename = [c \in CallIds |-> ""]
  /\ req = [c \in CallIds |-> NoReq]
  /\ resp = [c \in CallIds |-> NoResp]
  /\ newTraceId = [c \in CallIds |-> ""]
  /\ result = [c \in CallIds |-> NoResult]
  /\ upstream = [c \in CallIds |-> <<>>]
  /\ sent = {}
  /\ tasks = <<>>
  /\ runs = [r \in SourceRuns |-> SourceRun(r)]
  /\ submitPc = "idle"
  /\ items = <<>>
  /\ version = ""
  /\ results = <<>>
  /\ submitReq = NoReq
  /\ submitResp = NoResp
  /\ submitSent = <<>>
  /\ submitUpstream = <<>>
  /\ submitResult = NoResult
  /\ query = [c \in CallIds |-> NoQuery]
  /\ relayStatus = "checking"
  /\ polling = "init"
  /\ checks = <<>>
  /\ lastDone = 0
  /\ view = "none"
  /\ selected = <<>>
  /\ submitting = FALSE
  /\ pageResult = NoPageResult
  /\ submits = <<>>
  /\ lastClick = NoClick
  /\ statusFilter = "all"
  /\ runItems = <<>>
  /\ hasMore = FALSE
  /\ nextCursor = ""
  /\ loading = TRUE
  /\ fetches = <<>>
  /\ rerunning = FALSE
  /\ rerunError = ""
  /\ navigated = FALSE
  /\ reruns = <<>>
  /\ runState = "loading"
  /\ creatingFixTask = FALSE
  /\ fixTasks = <<>>

(* --------------------------- rerun route ------------------------------ *)
\* POST /api/runs/[run_id]/rerun, up to the first await fetch
RerunStart(c, rid) ==
  /\ Arrives(c)
  /\ kind' = [kind EXCEPT ![c] = "rerun"]
  /\ run_id' = [run_id EXCEPT ![c] = rid]
  /\ Send(c, RerunTaskRequest(rid))
  /\ pc' = [pc EXCEPT ![c] = "await_task"]
  /\ UNCHANGED <<filename, resp, newTraceId, result, upstream, tasks, runs>>
  /\ UNCHANGED <<submitVars, proxyVars, pageVars>>

\* from the answer to the task fetch up to the second await fetch
RerunAfterTask(c, draws) ==
  /\ pc[c] = "await_task"
  /\ resp[c].type # "none"
  /\ Receive(c)
  /\ IF resp[c].type = "throw"
       THEN /\ Finish(c, RerunCatch)
            /\ UNCHANGED <<req, sent, newTraceId>>
     ELSE IF ~ok(resp[c].status)
       THEN /\ Finish(c, RerunTaskError(resp[c]))
            /\ UNCHANGED <<req, sent, newTraceId>>
     ELSE IF ~resp[c].data.has_payload
       \* payload is undefined: payload.user_id throws a TypeError
       THEN /\ Finish(c, RerunCatch)
            /\ UNCHANGED <<req, sent, newTraceId>>
     ELSE /\ newTraceId' = [newTraceId EXCEPT ![c] = MintTraceId(run_id[c], draws)]
          /\ Send(c, RerunSubmitRequest(run_id[c], resp[c].data.payload, newTraceId'[c]))
          /\ pc' = [pc EXCEPT ![c] = "await_submit"]
          /\ UNCHANGED result
  /\ UNCHANGED <<kind, run_id, filename, tasks, runs>>
  /\ UNCHANGED <<submitVars, proxyVars, pageVars>>

\* from the answer to the submission to the return
RerunAfterSubmit(c) ==
  /\ pc[c] = "await_submit"
  /\ resp[c].type # "none"
  /\ Receive(c)
  /\ IF resp[c].type = "throw"
       THEN Finish(c, RerunCatch)
     ELSE IF ~ok(resp[c].status)
       THEN Finish(c, RerunSubmitError(resp[c]))
     ELSE Finish(c, [status |-> 200,
                     body |-> [success       |-> TRUE,
                               task_id       |-> resp[c].data.task_id,
                               trace_id      |-> newTraceId[c],
                               parent_run_id |-> run_id[c]]])
  /\ UNCHANGED <<kind, run_id, filename, req, newTraceId, sent, tasks, runs>>
  /\ UNCHANGED <<submitVars, proxyVars, pageVars>>

(* -------------------------- fix-task route ---------------------------- *)
\* the body forwarded by the fix-task route: {} when the caller sent none
FixTaskRequest(rid, b) ==
  [method |-> "POST",
   url    |-> RELAY_API_URL \o "/runs/" \o rid \o "/fix-task",
   body   |-> [json |-> IF b = "none" THEN "{}" ELSE b]]

\* POST /api/runs/[run_id]/fix-task, up to the await fetch
FixStart(c, rid, b) ==
  /\ Arrives(c)
  /\ kind' = [kind EXCEPT ![c] = "fix"]
  /\ run_id' = [run_id EXCEPT ![c] = rid]
  /\ Send(c, FixTaskRequest(rid, b))
  /\ pc' = [pc EXCEPT ![c] = "await_fix"]
  /\ UNCHANGED <<filename, resp, newTraceId, result, upstream, tasks, runs>>
  /\ UNCHANGED <<submitVars, proxyVars, pageVars>>

\* from the relay's answer to the return
FixAfter(c) ==
  /\ pc[c] = "await_fix"
  /\ resp[c].type # "none"
  /\ Receive(c)
  /\ IF resp[c].type = "throw"
       THEN Finish(c, [status |-> 500, body |-> [error |-> "Failed to create fix task"]])
     ELSE IF ~ok(resp[c].status)
       THEN Finish(c, FixTaskError(resp[c]))
     ELSE Finish(c, [status |-> 200, body |-> resp[c].data])
  /\ UNCHANGED <<kind, run_id, filename, req, newTraceId, sent, tasks, runs>>
  /\ UNCHANGED <<submitVars, proxyVars, pageVars>>

(* -------------------------- artifact route ---------------------------- *)
\* variant: the check looks at the extension only
IsAllowed_ext(f) ==
  endsWith(f, ".diff") \/ endsWith(f, ".log") \/ endsWith(f, ".json") \/ endsWith(f, ".txt")

\* allowed.includes(filename)
IsAllowed(f) == includes(allowed, f)

ArtifactRequest(rid, f) ==
  [method |-> "GET",
   url    |-> RELAY_API_URL \o "/runs/" \o rid \o "/artifacts/" \o f,
   body   |-> NoBody]

\* the Content-Type chosen from the filename
ContentType(f) ==
  IF endsWith(f, ".json") THEN "application/json"
  ELSE IF endsWith(f, ".diff") THEN "text/x-diff"
  ELSE "text/plain"

\* GET /api/runs/[run_id]/artifacts/[filename], up to the await fetch
ArtifactStart(c, rid, f) ==
  /\ Arrives(c)
  /\ kind' = [kind EXCEPT ![c] = "artifact"]
  /\ run_id' = [run_id EXCEPT ![c] = rid]
  /\ filename' = [filename EXCEPT ![c] = f]
  /\ IF ~IsAllowed(f)
       THEN /\ Finish(c, [status |-> 400, body |-> [error |-> "Invalid filename"]])
            /\ UNCHANGED <<req, sent>>
       ELSE /\ Send(c, ArtifactRequest(rid, f))
            /\ pc' = [pc EXCEPT ![c] = "await_artifact"]
            /\ UNCHANGED result
  /\ UNCHANGED <<resp, newTraceId, upstream, tasks, runs>>
  /\ UNCHANGED <<submitVars, proxyVars, pageVars>>

\* from the relay's answer to the return
ArtifactAfter(c) ==
  /\ pc[c] = "await_artifact"
  /\ resp[c].type # "none"
  /\ Receive(c)
  /\ IF resp[c].type = "throw"
       THEN Finish(c, [status |-> 500, body |-> [error |-> "Failed to fetch artifact"]])
     ELSE IF ~ok(resp[c].status)
       THEN Finish(c, [status |-> resp[c].status, body |-> [error |-> "File not found"]])
     ELSE Finish(c, [status |-> 200,
                     body |-> [content |-> resp[c].body,
                               contentType |-> ContentType(filename[c])]])
  /\ UNCHANGED <<kind, run_id, filename, req, newTraceId, sent, tasks, runs>>
  /\ UNCHANGED <<submitVars, proxyVars, pageVars>>

(* ------------------------- the relay backend -------------------------- *)
(* The relay is outside the repository; it is modelled from its HTTP       *)
(* contract.  A request is answered in one step.                           *)
Pending(c) == req[c].method # "none" /\ resp[c].type = "none"

Answer(c, r) == /\ resp' = [resp EXCEPT ![c] = r]
                /\ req' = [req EXCEPT ![c] = NoReq]

Http(status, body, data) ==
  [type |-> "http", status |-> status, body |-> body, data |-> data]

NotFound == Http(404, "Run not found", [none |-> TRUE])

\* /runs/{run_id}/task: GET returns the original payload; any other method
\* writes the task resource of the run
BackendTask(c, hasPayload) ==
  /\ Pending(c)
  /\ \E r \in Targets :
       /\ req[c].url = RELAY_API_URL \o "/runs/" \o r \o "/task"
       /\ IF r \notin DOMAIN runs
            THEN Answer(c, NotFound) /\ UNCHANGED runs
          ELSE IF req[c].method = "GET"
            THEN /\ Answer(c, Http(200, "", [has_payload |-> hasPayload,
                                             payload |-> runs[r].payload]))
                 /\ UNCHANGED runs
          ELSE /\ runs' = [runs EXCEPT ![r].payload = req[c].body]
               /\ Answer(c, Http(200, "", [has_payload |-> hasPayload,
                                           payload |-> runs[r].payload]))
  /\ UNCHANGED <<pc, kind, run_id, filename, newTraceId, result, upstream, sent, tasks>>
  /\ UNCHANGED <<submitVars, proxyVars, pageVars>>

\* POST /tasks: accepts the task; its run is created later
BackendSubmit(c) ==
  /\ Pending(c)
  /\ req[c].url = RELAY_API_URL \o "/tasks"
  /\ req[c].method = "POST"
  /\ LET tid == "task_" \o NatToStr(Len(tasks) + 1) IN
       /\ tasks' = Append(tasks, [task_id       |-> tid,
                                  trace_id      |-> req[c].body.trace_id,
                                  parent_run_id |-> req[c].body.parent_run_id,
                                  content       |-> req[c].body.content,
                                  call          |-> c,
                                  run_id        |-> "pending"])
       /\ Answer(c, Http(200, "", [task_id |-> tid]))
  /\ UNCHANGED <<pc, kind, run_id, filename, newTraceId, result, upstream, sent, runs>>
  /\ UNCHANGED <<submitVars, proxyVars, pageVars>>

\* POST /runs/{run_id}/fix-task: accepts a remediation task for the run
BackendFixTask(c) ==
  /\ Pending(c)
  /\ \E r \in Targets :
       /\ req[c].url = RELAY_API_URL \o "/runs/" \o r \o "/fix-task"
       /\ IF r \notin DOMAIN runs
            THEN Answer(c, NotFound) /\ UNCHANGED tasks
            ELSE LET tid == "task_" \o NatToStr(Len(tasks) + 1)
                     trc == "tr_fix_" \o r \o "_" \o NatToStr(Len(tasks) + 1) IN
                   /\ tasks' = Append(tasks, [task_id       |-> tid,
                                              trace_id      |-> trc,
                                              parent_run_id |-> r,
                                              content       |-> "fix " \o r,
                                              call          |-> c,
                                              run_id        |-> "pending"])
                   /\ Answer(c, Http(200, "", [task_id |-> tid, trace_id |-> trc]))
  /\ UNCHANGED <<pc, kind, run_id, filename, newTraceId, result, upstream, sent, runs>>
  /\ UNCHANGED <<submitVars, proxyVars, pageVars>>

\* GET /runs/{run_id}/artifacts/{filename}
BackendArtifact(c) ==
  /\ Pending(c)
  /\ \E r \in Targets, f \in Filenames :
       /\ req[c].url = RELAY_API_URL \o "/runs/" \o r \o "/artifacts/" \o f
       /\ IF r \in DOMAIN runs /\ f \in runs[r].artifacts
            THEN Answer(c, Http(200, "content of " \o f, [none |-> TRUE]))
            ELSE Answer(c, Http(404, "Artifact not found", [none |-> TRUE]))
  /\ UNCHANGED <<pc, kind, run_id, filename, newTraceId, result, upstream, sent, tasks, runs>>
  /\ UNCHANGED <<submitVars, proxyVars, pageVars>>

\* the relay answers with a non-success status without acting on the request
BackendOutage(c, o) ==
  /\ Pending(c)
  /\ Answer(c, Http(o.status, o.body, [none |-> TRUE]))
  /\ UNCHANGED <<pc, kind, run_id, filename, newTraceId, result, upstream, sent, tasks, runs>>
  /\ UNCHANGED <<submitVars, proxyVars, pageVars>>

\* the relay is unreachable: fetch rejects
NetworkFail(c) ==
  /\ Pending(c)
  /\ Answer(c, [type |-> "throw"])
  /\ UNCHANGED <<pc, kind, run_id, filename, newTraceId, result, upstream, sent, tasks, runs>>
  /\ UNCHANGED <<submitVars, proxyVars, pageVars>>

\* the relay creates the run of an accepted task and assigns its run_id
BackendCreateRun(i) ==
  /\ i \in 1..Len(tasks)
  /\ tasks[i].run_id = "pending"
  /\ LET nid == "n" \o NatToStr(i) IN
       /\ tasks' = [tasks EXCEPT ![i].run_id = nid]
       /\ runs' = [x \in DOMAIN runs \cup {nid} |->
                     IF x = nid
                       THEN [run_id        |-> nid,
                             trace_id      |-> tasks[i].trace_id,
                             task_id       |-> tasks[i].task_id,
                             status        |-> "created",
                             parent_run_id |-> tasks[i].parent_run_id,
                             artifacts     |-> {},
                             payload       |-> [user_id      |-> "u1",
                                                target       |-> "claude",
                                                content      |-> tasks[i].content,
                                                project_root |-> "/repo"]]
                       ELSE runs[x]]
  /\ UNCHANGED <<pc, kind, run_id, filename, req, resp, newTraceId, result, upstream, sent>>
  /\ UNCHANGED <<submitVars, proxyVars, pageVars>>

(* ------------------------------ Next ---------------------------------- *)
\* the dispatch routes (rerun, fix-task) and the relay
Next ==
  \/ \E c \in CallIds, r \in Targets : RerunStart(c, r)
  \/ \E c \in CallIds, d \in RandomDraws : RerunAfterTask(c, d)
  \/ \E c \in CallIds : RerunAfterSubmit(c)
  \/ \E c \in CallIds, r \in Targets, b \in FixBodies : FixStart(c, r, b)
  \/ \E c \in CallIds : FixAfter(c)
  \/ \E c \in CallIds, hp \in BOOLEAN : BackendTask(c, hp)
  \/ \E c \in CallIds : BackendSubmit(c)
  \/ \E c \in CallIds : BackendFixTask(c)
  \/ \E c \in CallIds, o \in OutageResponses : BackendOutage(c, o)
  \/ \E c \in CallIds : NetworkFail(c)
  \/ \E i \in 1..Len(tasks) : BackendCreateRun(i)

Spec == Init /\ [][Next]_vars

\* the artifact route and the relay
NextArtifact ==
  \/ \E c \in CallIds, r \in Targets, f \in Filenames : ArtifactStart(c, r, f)
  \/ \E c \in CallIds : ArtifactAfter(c)
  \/ \E c \in CallIds : BackendArtifact(c)
  \/ \E c \in CallIds, o \in OutageResponses : BackendOutage(c, o)
  \/ \E c \in CallIds : NetworkFail(c)

SpecArtifact == Init /\ [][NextArtifact]_vars

(* --------------- the dispatch and artifact routes, fair ---------------- *)
\* the continuation of call c after an await: the event loop runs it once
\* the awaited fetch has settled
Resume(c) ==
  \/ \E d \in RandomDraws : RerunAfterTask(c, d)
  \/ RerunAfterSubmit(c)
  \/ FixAfter(c)
  \/ ArtifactAfter(c)

\* rerun, fix-task and artifact calls; the relay may answer or not
NextCalls ==
  \/ \E c \in CallIds, r \in Targets : RerunStart(c, r)
  \/ \E c \in CallIds, r \in Targets, b \in FixBodies : FixStart(c, r, b)
  \/ \E c \in CallIds, r \in Targets, f \in Filenames : ArtifactStart(c, r, f)
  \/ \E c \in CallIds : Resume(c)
  \/ \E c \in CallIds, hp \in BOOLEAN : BackendTask(c, hp)
  \/ \E c \in CallIds : BackendSubmit(c)
  \/ \E c \in CallIds : BackendFixTask(c)
  \/ \E c \in CallIds : BackendArtifact(c)
  \/ \E c \in CallIds, o \in OutageResponses : BackendOutage(c, o)
  \/ \E c \in CallIds : NetworkFail(c)

\* no fairness is stated for the relay: it may never answer
SpecCalls ==
  Init /\ [][NextCalls]_vars /\ \A c \in CallIds : WF_vars(Resume(c))

(* ------------------------ submit-tasks route -------------------------- *)
(* POST /api/submit-tasks.  The Japanese headings of the task text and of  *)
(* the message are written in ASCII.                                       *)
dispatchVars == <<pc, kind, run_id, filename, req, resp, newTraceId, result,
                  upstream, sent, runs>>

\* the markdown text of one item
taskContent(item, v) ==
  "## " \o (IF item.category = "dev" THEN "dev task" ELSE "business task")
        \o " (" \o v \o ")\n\n"
        \o "**project**: " \o item.project \o "\n"
        \o "**priority**: " \o NatToStr(item.priority) \o "\n"
        \o "**source**: " \o item.source_feature \o "\n\n"
        \o "### task\n" \o item.task \o "\n\n---\n"
        \o "_sent automatically by AI Update Radar_"

\* the fetch of one item: POST ${RELAY_API_URL}/tasks
SubmitItemRequest(item, v) ==
  [method |-> "POST",
   url    |-> RELAY_API_URL \o "/tasks",
   body   |-> [user_id      |-> "ai-update-radar",
               target       |-> "auto",
               content      |-> taskContent(item, v),
               project_root |-> "/home/fumi/" \o item.project]]

\* what the loop body pushes for one item, given how its fetch settled
ItemResult(r, item) ==
  IF r.type = "throw"
    THEN [success |-> FALSE, error |-> r.message, item |-> item]
  ELSE IF ok(r.status)
    THEN [task_id |-> r.data.task_id, success |-> TRUE, item |-> item]
  ELSE [success |-> FALSE,
        error   |-> "HTTP " \o NatToStr(r.status) \o ": " \o r.body,
        item    |-> item]

successCount(rs) == Cardinality({ i \in DOMAIN rs : rs[i].success })
failedCount(rs) == Cardinality({ i \in DOMAIN rs : ~rs[i].success })

SubmitMessage(rs) ==
  NatToStr(successCount(rs)) \o " tasks submitted"
    \o (IF failedCount(rs) > 0
          THEN " (" \o NatToStr(failedCount(rs)) \o " failed)" ELSE "")

\* variant: the flag reports that some item succeeded
SubmitTasksResponse_any(rs) ==
  [status |-> 200,
   body   |-> [success |-> successCount(rs) > 0,
               message |-> SubmitMessage(rs),
               results |-> rs]]

\* the answer after the loop (submitted_at, the clock reading, is left out)
SubmitTasksResponse(rs) ==
  [status |-> 200,
   body   |-> [success |-> failedCount(rs) = 0,
               message |-> SubmitMessage(rs),
               results |-> rs]]

NoItemsResponse ==
  [status |-> 400, body |-> [success |-> FALSE, error |-> "No items to submit"]]

SubmitSend(r) == /\ submitReq' = r
                 /\ submitSent' = Append(submitSent, r)

\* from the request body to the first await fetch (an absent items list
\* takes the same branch as an empty one)
SubmitTasksStart(b, v) ==
  /\ submitPc = "idle"
  /\ items' = b
  /\ version' = v
  /\ IF Len(b) = 0
       THEN /\ submitResult' = NoItemsResponse
            /\ submitPc' = "done"
            /\ UNCHANGED <<submitReq, submitSent>>
       ELSE /\ SubmitSend(SubmitItemRequest(b[1], v))
            /\ submitPc' = "await"
            /\ UNCHANGED submitResult
  /\ UNCHANGED <<results, submitResp, submitUpstream, tasks>>
  /\ UNCHANGED <<dispatchVars, proxyVars, pageVars>>

\* the fetch of the current item settles: push its result, then either
\* fetch for the next item or leave the loop and answer
SubmitTasksAfterItem ==
  /\ submitPc = "await"
  /\ submitResp.type # "none"
  /\ LET item == items[Len(results) + 1]
         rs   == Append(results, ItemResult(submitResp, item)) IN
       /\ results' = rs
       /\ IF Len(rs) < Len(items)
            THEN /\ SubmitSend(SubmitItemRequest(items[Len(rs) + 1], version))
                 /\ UNCHANGED <<submitPc, submitResult>>
            ELSE /\ submitResult' = SubmitTasksResponse(rs)
                 /\ submitPc' = "done"
                 /\ submitReq' = NoReq
                 /\ UNCHANGED submitSent
  /\ submitUpstream' = Append(submitUpstream, submitResp)
  /\ submitResp' = NoResp
  /\ UNCHANGED <<items, version, tasks>>
  /\ UNCHANGED <<dispatchVars, proxyVars, pageVars>>

SubmitPending == submitPc = "await" /\ submitResp.type = "none"

\* relay, POST /tasks: accepts the item's task
BackendSubmitItem ==
  /\ SubmitPending
  /\ LET tid == "task_" \o NatToStr(Len(tasks) + 1) IN
       /\ tasks' = Append(tasks, [task_id      |-> tid,
                                  content      |-> submitReq.body.content,
                                  project_root |-> submitReq.body.project_root,
                                  run_id       |-> "pending"])
       /\ submitResp' = Http(200, "", [task_id |-> tid])
  /\ UNCHANGED <<submitPc, items, version, results, submitReq, submitSent,
                 submitUpstream, submitResult>>
  /\ UNCHANGED <<dispatchVars, proxyVars, pageVars>>

\* relay: answers the item with a non-success status and an error text
BackendRejectItem(o) ==
  /\ SubmitPending
  /\ submitResp' = Http(o.status, o.body, [none |-> TRUE])
  /\ UNCHANGED <<submitPc, items, version, results, submitReq, submitSent,
                 submitUpstream, submitResult, tasks>>
  /\ UNCHANGED <<dispatchVars, proxyVars, pageVars>>

\* the relay is unreachable: the item's fetch rejects
SubmitNetworkFail ==
  /\ SubmitPending
  /\ submitResp' = [type |-> "throw", message |-> "fetch failed"]
  /\ UNCHANGED <<submitPc, items, version, results, submitReq, submitSent,
                 submitUpstream, submitResult, tasks>>
  /\ UNCHANGED <<dispatchVars, proxyVars, pageVars>>

NextSubmit ==
  \/ \E b \in Batches, v \in Versions : SubmitTasksStart(b, v)
  \/ SubmitTasksAfterItem
  \/ BackendSubmitItem
  \/ \E o \in ItemFailures : BackendRejectItem(o)
  \/ SubmitNetworkFail

SpecSubmit == Init /\ [][NextSubmit]_vars

(* ---------------------------- proxy routes ---------------------------- *)
(* GET /api/runs, /api/runs/stats, /api/runs/[run_id]/task,                *)
(* /api/ci-fix/runs/[run_id], /api/learning/stats and                      *)
(* POST /api/learning/signals.                                             *)
LEDGER_API == "http://18.176.47.143:8002"

Unreserved ==
  "abcdefghijklmnopqrstuvwxyzABCDEFGHIJKLMNOPQRSTUVWXYZ0123456789-_.*"

\* percent-encoding of one character: the characters that both
\* encodeURIComponent and URLSearchParams leave alone, and the escapes of
\* the separators of a URL
encodeChar(ch) ==
  IF \E i \in 1..Len(Unreserved) : SubSeq(Unreserved, i, i) = ch THEN ch
  ELSE IF ch = "/" THEN "%2F"
  ELSE IF ch = "?" THEN "%3F"
  ELSE IF ch = "&" THEN "%26"
  ELSE IF ch = "=" THEN "%3D"
  ELSE IF ch = ":" THEN "%3A"
  ELSE "%25"

RECURSIVE encodeURIComponent(_)
encodeURIComponent(s) ==
  IF Len(s) = 0 THEN ""
  ELSE encodeChar(SubSeq(s, 1, 1)) \o encodeURIComponent(SubSeq(s, 2, Len(s)))

\* the parameters the runs route copies into the relay query, in order
RunsForwarded == <<"limit", "cursor", "status", "trace_id", "since">>

\* URLSearchParams.toString() of the parameters of q named in names
RECURSIVE toQueryString(_, _)
toQueryString(q, names) ==
  IF Len(names) = 0 THEN ""
  ELSE LET n    == Head(names)
           rest == toQueryString(q, Tail(names)) IN
         IF q[n] = "" THEN rest
         ELSE n \o "=" \o encodeURIComponent(q[n])
                \o (IF rest = "" THEN "" ELSE "&" \o rest)

Endpoints == {"runs", "stats", "task", "cifix", "learning_stats", "signals"}

SignalBodies ==
  { [run_id |-> "r1", chosen |-> "rerun", recommended |-> "retry",
     reason |-> "rule_1"] }

\* the requests the proxy routes receive
ProxyInputs ==
  { [endpoint |-> "runs", run_id |-> "", query |-> q, body |-> NoBody] :
      q \in RunQueries }
  \cup { [endpoint |-> e, run_id |-> "", query |-> q, body |-> NoBody] :
           e \in {"stats", "learning_stats"}, q \in SinceQueries }
  \cup { [endpoint |-> "task", run_id |-> r, query |-> NoQuery, body |-> NoBody] :
           r \in {"r1", MissingRun} }
  \cup { [endpoint |-> "cifix", run_id |-> "r1", query |-> NoQuery, body |-> NoBody] }
  \cup { [endpoint |-> "signals", run_id |-> "", query |-> NoQuery, body |-> b] :
           b \in SignalBodies }

\* the fetch each route makes
ProxyRequest(in) ==
  LET q == in.query IN
  IF in.endpoint = "runs" THEN
    LET queryString == toQueryString(q, RunsForwarded) IN
      [method |-> "GET",
       url    |-> RELAY_API_URL \o "/runs"
                    \o (IF queryString # "" THEN "?" \o queryString ELSE ""),
       body   |-> NoBody]
  ELSE IF in.endpoint = "stats" THEN
    [method |-> "GET",
     url    |-> RELAY_API_URL \o "/runs/stats"
                  \o (IF q.since # "" THEN "?" \o toQueryString(q, <<"since">>)
                                      ELSE ""),
     body   |-> NoBody]
  ELSE IF in.endpoint = "task" THEN
    [method |-> "GET",
     url    |-> RELAY_API_URL \o "/runs/" \o in.run_id \o "/task",
     body   |-> NoBody]
  ELSE IF in.endpoint = "cifix" THEN
    [method |-> "GET",
     url    |-> LEDGER_API \o "/api/ci-fix/runs/" \o encodeURIComponent(in.run_id),
     body   |-> NoBody]
  ELSE IF in.endpoint = "learning_stats" THEN
    [method |-> "GET",
     url    |-> RELAY_API_URL \o "/learning/stats?since="
                  \o encodeURIComponent(IF q.since # "" THEN q.since ELSE "7d"),
     body   |-> NoBody]
  ELSE
    [method |-> "POST",
     url    |-> RELAY_API_URL \o "/learning/signals",
     body   |-> in.body]

\* the answer of each route when the upstream response is not ok
ProxyError(e, r) ==
  [status |-> r.status,
   body   |-> [error |->
     IF e = "runs" \/ e = "task" THEN "Relay API error: " \o r.body
     ELSE IF e = "stats" THEN "Failed to fetch stats"
     ELSE IF e = "cifix" THEN "Run not found"
     ELSE IF e = "learning_stats" THEN "Failed to get learning stats: " \o r.body
     ELSE "Failed to send learning signal: " \o r.body]]

\* the catch branch of each route
ProxyCatch(e) ==
  IF e = "runs" THEN [status |-> 500, body |-> [error |-> "Failed to fetch runs"]]
  ELSE IF e = "stats" THEN [status |-> 500, body |-> [error |-> "Internal server error"]]
  ELSE IF e = "task" THEN [status |-> 500, body |-> [error |-> "Failed to fetch task"]]
  ELSE IF e = "cifix" THEN [status |-> 503, body |-> [error |-> "Ledger API unavailable"]]
  ELSE IF e = "learning_stats"
    THEN [status |-> 500, body |-> [error |-> "Failed to get learning stats"]]
  ELSE [status |-> 500, body |-> [error |-> "Failed to send learning signal"]]

\* a proxy route, up to its await fetch
ProxyStart(c, in) ==
  /\ Arrives(c)
  /\ kind' = [kind EXCEPT ![c] = in.endpoint]
  /\ run_id' = [run_id EXCEPT ![c] = in.run_id]
  /\ query' = [query EXCEPT ![c] = in.query]
  /\ Send(c, ProxyRequest(in))
  /\ pc' = [pc EXCEPT ![c] = "await_proxy"]
  /\ UNCHANGED <<filename, resp, newTraceId, result, upstream, tasks, runs>>
  /\ UNCHANGED <<submitVars, pageVars>>

\* from the upstream answer to the return
ProxyAfter(c) ==
  /\ pc[c] = "await_proxy"
  /\ resp[c].type # "none"
  /\ Receive(c)
  /\ IF resp[c].type = "throw"
       THEN Finish(c, ProxyCatch(kind[c]))
     ELSE IF ~ok(resp[c].status)
       THEN Finish(c, ProxyError(kind[c], resp[c]))
     ELSE Finish(c, [status |-> 200, body |-> resp[c].data])
  /\ UNCHANGED <<kind, run_id, filename, req, newTraceId, sent, tasks, runs>>
  /\ UNCHANGED <<submitVars, proxyVars, pageVars>>

startsWith(s, prefix) ==
  Len(s) >= Len(prefix) /\ SubSeq(s, 1, Len(prefix)) = prefix

\* relay or ledger: answers a list, stats, ci-fix or signal request
BackendRead(c) ==
  /\ Pending(c)
  /\ ~endsWith(req[c].url, "/task")
  /\ Answer(c, Http(200, "", [json |-> "answer to " \o req[c].url]))
  /\ UNCHANGED <<pc, kind, run_id, filename, newTraceId, result, upstream, sent, tasks, runs>>
  /\ UNCHANGED <<submitVars, proxyVars, pageVars>>

NextProxy ==
  \/ \E c \in CallIds, in \in ProxyInputs : ProxyStart(c, in)
  \/ \E c \in CallIds : ProxyAfter(c)
  \/ \E c \in CallIds : BackendRead(c)
  \/ \E c \in CallIds, hasPayload \in BOOLEAN : BackendTask(c, hasPayload)
  \/ \E c \in CallIds, o \in OutageResponses : BackendOutage(c, o)
  \/ \E c \in CallIds : NetworkFail(c)

SpecProxy == Init /\ [][NextProxy]_vars

(* ----------------------- relay connection status ---------------------- *)
(* checkRelay of the actions page and of the release page (the two are     *)
(* the same code), and the GET handler of /api/submit-tasks it calls.      *)
\* GET /api/submit-tasks: the JSON it answers for each outcome of its fetch
\* of ${RELAY_API_URL}/health
HealthGET(h) ==
  IF h = "ok" THEN [relay_api |-> "connected"]
  ELSE IF h = "not_ok" THEN [relay_api |-> "unhealthy"]
  ELSE [relay_api |-> "not_running"]

\* variant: an unhealthy relay counts as connected
StatusOf_lenient(data) ==
  IF data.relay_api = "connected" \/ data.relay_api = "unhealthy"
    THEN "connected" ELSE "disconnected"

\* the status checkRelay sets from the JSON of the health route
StatusOf(data) ==
  IF data.relay_api = "connected" THEN "connected" ELSE "disconnected"

NewCheck == [state |-> "fetching", relay_api |-> ""]

\* the effect runs: the first checkRelay call and setInterval
PageMount ==
  /\ polling = "init"
  /\ polling' = "running"
  /\ checks' = Append(checks, NewCheck)
  /\ UNCHANGED <<relayStatus, lastDone>>
  /\ UNCHANGED offHealthVars

\* the interval fires: another checkRelay call
IntervalTick ==
  /\ polling = "running"
  /\ Len(checks) < MaxChecks
  /\ checks' = Append(checks, NewCheck)
  /\ UNCHANGED <<relayStatus, polling, lastDone>>
  /\ UNCHANGED offHealthVars

\* the cleanup of the effect: clearInterval
PageUnmount ==
  /\ polling = "running"
  /\ polling' = "cancelled"
  /\ UNCHANGED <<relayStatus, checks, lastDone>>
  /\ UNCHANGED offHealthVars

\* the health route answers check i
HealthAnswer(i, h) ==
  /\ i \in 1..Len(checks)
  /\ checks[i].state = "fetching"
  /\ checks' = [checks EXCEPT ![i] = [state |-> "answered",
                                      relay_api |-> HealthGET(h).relay_api]]
  /\ UNCHANGED <<relayStatus, polling, lastDone>>
  /\ UNCHANGED offHealthVars

\* the fetch of check i or its res.json() rejects
HealthFetchFail(i) ==
  /\ i \in 1..Len(checks)
  /\ checks[i].state = "fetching"
  /\ checks' = [checks EXCEPT ![i] = [state |-> "rejected", relay_api |-> ""]]
  /\ UNCHANGED <<relayStatus, polling, lastDone>>
  /\ UNCHANGED offHealthVars

\* checkRelay i resumes after its await: setRelayStatus
CheckRelayAfter(i) ==
  /\ i \in 1..Len(checks)
  /\ checks[i].state \in {"answered", "rejected"}
  /\ relayStatus' = IF checks[i].state = "rejected" THEN "disconnected"
                    ELSE StatusOf(checks[i])
  /\ checks' = [checks EXCEPT ![i].state =
                  IF checks[i].state = "rejected" THEN "failed" ELSE "done"]
  /\ lastDone' = i
  /\ UNCHANGED polling
  /\ UNCHANGED offHealthVars

NextHealth ==
  \/ PageMount
  \/ IntervalTick
  \/ PageUnmount
  \/ \E i \in 1..MaxChecks, h \in HealthOutcomes : HealthAnswer(i, h)
  \/ \E i \in 1..MaxChecks : HealthFetchFail(i)
  \/ \E i \in 1..MaxChecks : CheckRelayAfter(i)

SpecHealth == Init /\ [][NextHealth]_vars

(* --------------------------- submission form -------------------------- *)
(* handleSubmit and the selection handlers of the actions page (tabs       *)
(* claude and codex) and of the release page.                              *)
\* Set.prototype.has on a Set kept in insertion order
has(set, k) == \E i \in 1..Len(set) : set[i] = k

\* toggleItem: delete the key if present, add it otherwise
toggle(set, k) ==
  IF has(set, k) THEN SelectSeq(set, LAMBDA x : x # k) ELSE Append(set, k)

Upper == "ABCDEFGHIJKLMNOPQRSTUVWXYZ"
Lower == "abcdefghijklmnopqrstuvwxyz"

RECURSIVE toLowerCase(_)
toLowerCase(s) ==
  IF Len(s) = 0 THEN ""
  ELSE LET ch == SubSeq(s, 1, 1)
           up == { i \in 1..Len(Upper) : SubSeq(Upper, i, i) = ch } IN
         (IF up = {} THEN ch
          ELSE LET i == CHOOSE j \in up : TRUE IN SubSeq(Lower, i, i))
           \o toLowerCase(SubSeq(s, 2, Len(s)))

\* String.prototype.replace with a string pattern: the first occurrence
replace(s, pat, rep) ==
  LET at == { i \in 1..(Len(s) - Len(pat) + 1) :
                SubSeq(s, i, i + Len(pat) - 1) = pat } IN
    IF at = {} THEN s
    ELSE LET i == CHOOSE j \in at : \A k \in at : j <= k IN
           SubSeq(s, 1, i - 1) \o rep \o SubSeq(s, i + Len(pat), Len(s))

\* String.prototype.substring(0, n)
substring0(s, n) == IF Len(s) <= n THEN s ELSE SubSeq(s, 1, n)

\* parseInt of a string of decimal digits
RECURSIVE parseInt(_)
parseInt(s) ==
  IF Len(s) = 0 THEN 0
  ELSE LET last == SubSeq(s, Len(s), Len(s))
           d == CHOOSE i \in 0..9 : charAt(Digits, i) = last IN
         10 * parseInt(SubSeq(s, 1, Len(s) - 1)) + d

ProposalPrefix == "proposal"

\* dev_improvements.filter(d => d.source_feature.startsWith(<proposal>))
featureProposals(data) ==
  SelectSeq(data.dev_improvements,
            LAMBDA d : startsWith(d.source_feature, ProposalPrefix))

\* the predicate of action_items.find in the rendering of a proposal
MatchesProposal(a, item) ==
  /\ startsWith(a.source_feature, ProposalPrefix)
  /\ \/ Contains(toLowerCase(item.suggestion),
                 toLowerCase(replace(a.source_feature, ProposalPrefix \o ": ", "")))
     \/ Contains(toLowerCase(a.task),
                 toLowerCase(substring0(item.suggestion, 20)))

\* the key of the checkbox of the i-th proposal (i counts from 1):
\* actionItem?.priority ?? 1000 + i
checkboxKey(data, i) ==
  LET item  == featureProposals(data)[i]
      found == { j \in 1..Len(data.action_items) :
                   MatchesProposal(data.action_items[j], item) } IN
    IF found = {} THEN 1000 + (i - 1)
    ELSE data.action_items[CHOOSE j \in found : \A k \in found : j <= k].priority

\* the key by which handleSubmit picks the i-th proposal: 1000 + i
submitKey(i) == 1000 + (i - 1)

\* handleSubmit of the release page: selected.forEach building tasks
RECURSIVE ReleaseTasks(_, _)
ReleaseTasks(keys, acc) ==
  IF Len(keys) = 0 THEN acc
  ELSE
    LET key == Head(keys)
        rel == CodexReleaseData
        opp == IF startsWith(key, "opportunity-")
                 THEN parseInt(replace(key, "opportunity-", "")) + 1 ELSE 0
        act == IF startsWith(key, "action-")
                 THEN parseInt(replace(key, "action-", "")) + 1 ELSE 0
        next ==
          IF opp \in 1..Len(rel.opportunities) THEN
            Append(acc, [task |-> rel.opportunities[opp].feature \o " enable: "
                                    \o rel.opportunities[opp].benefit,
                         source_feature |-> rel.version \o " proposal",
                         priority |-> Len(acc) + 1,
                         project |-> rel.opportunities[opp].projects[1],
                         category |-> "tooling"])
          ELSE IF act \in 1..Len(rel.action_items) THEN
            Append(acc, [task |-> rel.action_items[act].task,
                         source_feature |-> rel.action_items[act].source_feature,
                         priority |-> Len(acc) + 1,
                         project |-> "MCP Codex",
                         category |-> "tooling"])
          ELSE acc
    IN ReleaseTasks(Tail(keys), next)

\* the feature proposals of the Codex tab and the keys of their checkboxes
CodexProposals == featureProposals(CodexData)
CodexCheckboxKeys ==
  [i \in 1..Len(CodexProposals) |-> checkboxKey(CodexData, i)]

\* the items handleSubmit picks for submission
SelectedItems(v, sel) ==
  IF v = "claude" THEN
    SelectSeq(ClaudeData.action_items, LAMBDA it : has(sel, it.priority))
  ELSE IF v = "codex" THEN
    LET idx == SelectSeq([i \in 1..Len(CodexProposals) |-> i],
                         LAMBDA i : has(sel, submitKey(i))) IN
      [j \in 1..Len(idx) |->
         [task |-> CodexProposals[idx[j]].suggestion,
          source_feature |-> CodexProposals[idx[j]].source_feature,
          priority |-> submitKey(idx[j]),
          project |-> CodexProposals[idx[j]].project,
          category |-> "tooling",
          source |-> "codex"]]
  ELSE ReleaseTasks(sel, <<>>)

\* the keys of the checkboxes each view renders
ClaudeKeys ==
  { ClaudeData.action_items[i].priority : i \in 1..Len(ClaudeData.action_items) }
CodexKeys == { CodexCheckboxKeys[i] : i \in 1..Len(CodexProposals) }
ReleaseKeys ==
  { "opportunity-" \o NatToStr(i - 1) :
      i \in 1..Len(CodexReleaseData.opportunities) }
  \cup { "action-" \o NatToStr(i - 1) :
           i \in 1..Len(CodexReleaseData.action_items) }
CheckboxKeys(v) ==
  IF v = "claude" THEN ClaudeKeys
  ELSE IF v = "codex" THEN CodexKeys
  ELSE IF v = "release" THEN ReleaseKeys
  ELSE {}

\* variant: the button stays enabled while a submission is in flight
SubmitDisabled_noflag(sel, flag, status) ==
  Len(sel) = 0 \/ status # "connected"

\* the disabled attribute of the submit button
SubmitDisabled(sel, flag, status) ==
  Len(sel) = 0 \/ flag \/ status # "connected"

\* the page is opened
OpenPage(v) ==
  /\ view = "none"
  /\ view' = v
  /\ UNCHANGED <<selected, submitting, pageResult, submits, lastClick>>
  /\ UNCHANGED offFormVars

ToggleItem(k) ==
  /\ view # "none"
  /\ k \in CheckboxKeys(view)
  /\ selected' = toggle(selected, k)
  /\ UNCHANGED <<view, submitting, pageResult, submits, lastClick>>
  /\ UNCHANGED offFormVars

\* selectAll of the actions page (filter "all")
SelectAll ==
  /\ view \in {"claude", "codex"}
  /\ LET filtered == IF view = "claude" THEN ClaudeData.action_items
                                        ELSE CodexData.action_items IN
       selected' = [i \in 1..Len(filtered) |-> filtered[i].priority]
  /\ selected' # selected
  /\ UNCHANGED <<view, submitting, pageResult, submits, lastClick>>
  /\ UNCHANGED offFormVars

\* clearAll of the actions page, the clear button of the release page
ClearAll ==
  /\ view # "none"
  /\ selected # <<>>
  /\ selected' = <<>>
  /\ UNCHANGED <<view, submitting, pageResult, submits, lastClick>>
  /\ UNCHANGED offFormVars

\* setSourceTab, with the effect that resets the selection
SetSourceTab(t) ==
  /\ view \in {"claude", "codex"}
  /\ t \in {"claude", "codex"} /\ t # view
  /\ view' = t
  /\ selected' = <<>>
  /\ UNCHANGED <<submitting, pageResult, submits, lastClick>>
  /\ UNCHANGED offFormVars

\* the message handleSubmit shows when nothing was picked
NothingToSend == [success |-> FALSE, message |-> "no items to send"]

\* the body of the POST to /api/submit-tasks
SubmitBody(v, its) ==
  IF v = "release" THEN [items |-> its]
  ELSE [version |-> (IF v = "claude" THEN ClaudeData ELSE CodexData).version,
        items   |-> its]

\* a click on the submit button: handleSubmit up to its await fetch
HandleSubmit ==
  /\ view # "none"
  /\ Len(submits) < MaxSubmits
  /\ ~SubmitDisabled(selected, submitting, relayStatus)
  /\ LET its == SelectedItems(view, selected) IN
       /\ lastClick' = [view |-> view, selected |-> selected, items |-> its]
       /\ IF Len(selected) = 0
            THEN UNCHANGED <<submitting, pageResult, submits>>
          ELSE IF Len(its) = 0
            THEN /\ pageResult' = NothingToSend
                 /\ submitting' = FALSE
                 /\ UNCHANGED submits
          ELSE /\ submitting' = TRUE
               /\ pageResult' = NoPageResult
               /\ submits' = Append(submits, [state  |-> "fetching",
                                              view   |-> view,
                                              body   |-> SubmitBody(view, its),
                                              answer |-> NoPageResult])
  /\ UNCHANGED <<view, selected>>
  /\ UNCHANGED offFormVars

\* POST /api/submit-tasks answers submission i
FormAnswer(i, a) ==
  /\ i \in 1..Len(submits)
  /\ submits[i].state = "fetching"
  /\ submits' = [submits EXCEPT ![i].state = "answered", ![i].answer = a]
  /\ UNCHANGED <<view, selected, submitting, pageResult, lastClick>>
  /\ UNCHANGED offFormVars

\* the fetch of submission i or its response.json() rejects
FormFetchFail(i) ==
  /\ i \in 1..Len(submits)
  /\ submits[i].state = "fetching"
  /\ submits' = [submits EXCEPT ![i].state = "rejected"]
  /\ UNCHANGED <<view, selected, submitting, pageResult, lastClick>>
  /\ UNCHANGED offFormVars

\* handleSubmit resumes after its await: result, catch and finally
HandleSubmitAfter(i) ==
  /\ i \in 1..Len(submits)
  /\ submits[i].state \in {"answered", "rejected"}
  /\ LET sub == submits[i]
         n   == Len(sub.body.items) IN
       IF sub.state = "rejected"
         THEN /\ pageResult' = [success |-> FALSE, message |-> "submit failed"]
              /\ UNCHANGED selected
       ELSE /\ pageResult' =
                 IF sub.view # "release" THEN sub.answer
                 ELSE IF sub.answer.success
                   THEN [success |-> TRUE,
                         message |-> NatToStr(n) \o " tasks submitted"]
                 ELSE [success |-> FALSE, message |-> sub.answer.message]
            /\ selected' = IF sub.answer.success THEN <<>> ELSE selected
  /\ submitting' = FALSE
  /\ submits' = [submits EXCEPT ![i].state = "done"]
  /\ UNCHANGED <<view, lastClick>>
  /\ UNCHANGED offFormVars

\* a checkRelay call completes, as the form sees it: setRelayStatus with
\* either value, at any moment
RelayStatusSet(st) ==
  /\ st \in {"connected", "disconnected"}
  /\ relayStatus' = st
  /\ relayStatus' # relayStatus
  /\ UNCHANGED <<polling, checks, lastDone>>
  /\ UNCHANGED offHealthVars

\* the form, with the relay status changing under it
NextForm ==
  \/ \E st \in {"connected", "disconnected"} : RelayStatusSet(st)
  \/ \E v \in Views : OpenPage(v)
  \/ \E k \in CheckboxKeys(view) : ToggleItem(k)
  \/ SelectAll
  \/ ClearAll
  \/ \E t \in {"claude", "codex"} : SetSourceTab(t)
  \/ HandleSubmit
  \/ \E i \in 1..MaxSubmits, a \in FormAnswers : FormAnswer(i, a)
  \/ \E i \in 1..MaxSubmits : FormFetchFail(i)
  \/ \E i \in 1..MaxSubmits : HandleSubmitAfter(i)

SpecForm == Init /\ [][NextForm]_vars

(* ------------------------------ runs page ----------------------------- *)
\* fetchRuns(cursor) up to its await fetch, under the filters of the
\* render that calls it
FetchRunsCall(filter, cursor) ==
  /\ loading' = TRUE
  /\ fetches' = Append(fetches, [state  |-> "fetching",
                                 filter |-> filter,
                                 cursor |-> cursor,
                                 data   |-> [has_more |-> FALSE, next_cursor |-> ""]])

\* the effect at mount: fetchRuns()
RunsPageMount ==
  /\ fetches = <<>>
  /\ FetchRunsCall(statusFilter, "")
  /\ UNCHANGED <<statusFilter, runItems, hasMore, nextCursor>>
  /\ UNCHANGED offRunsPageVars

\* a status filter button: setStatusFilter, then the effect calls fetchRuns()
SetStatusFilter(f) ==
  /\ fetches # <<>>
  /\ Len(fetches) < MaxFetches
  /\ f # statusFilter
  /\ statusFilter' = f
  /\ FetchRunsCall(f, "")
  /\ UNCHANGED <<runItems, hasMore, nextCursor>>
  /\ UNCHANGED offRunsPageVars

\* handleSearch: fetchRuns()
HandleSearch ==
  /\ fetches # <<>>
  /\ Len(fetches) < MaxFetches
  /\ FetchRunsCall(statusFilter, "")
  /\ UNCHANGED <<statusFilter, runItems, hasMore, nextCursor>>
  /\ UNCHANGED offRunsPageVars

\* the load-more button (rendered when !loading && hasMore): handleLoadMore
HandleLoadMore ==
  /\ Len(fetches) < MaxFetches
  /\ ~loading /\ hasMore
  /\ nextCursor # ""
  /\ FetchRunsCall(statusFilter, nextCursor)
  /\ UNCHANGED <<statusFilter, runItems, hasMore, nextCursor>>
  /\ UNCHANGED offRunsPageVars

\* GET /api/runs answers fetch i with a page
RunsAnswer(i, a) ==
  /\ i \in 1..Len(fetches)
  /\ fetches[i].state = "fetching"
  /\ fetches' = [fetches EXCEPT ![i].state = "answered", ![i].data = a]
  /\ UNCHANGED <<statusFilter, runItems, hasMore, nextCursor, loading>>
  /\ UNCHANGED offRunsPageVars

\* fetch i rejects or its response is not ok
RunsFail(i) ==
  /\ i \in 1..Len(fetches)
  /\ fetches[i].state = "fetching"
  /\ fetches' = [fetches EXCEPT ![i].state = "rejected"]
  /\ UNCHANGED <<statusFilter, runItems, hasMore, nextCursor, loading>>
  /\ UNCHANGED offRunsPageVars

\* the page of fetch i, with the filter and cursor of the page state at
\* the moment it is put into the list (history)
PageOf(i) ==
  [filter   |-> fetches[i].filter,
   cursor   |-> fetches[i].cursor,
   selected |-> statusFilter,
   expected |-> nextCursor]

\* fetchRuns i resumes after its await: setRuns, setHasMore,
\* setNextCursor, and setLoading(false) in finally
FetchRunsAfter(i) ==
  /\ i \in 1..Len(fetches)
  /\ fetches[i].state \in {"answered", "rejected"}
  /\ IF fetches[i].state = "rejected"
       THEN UNCHANGED <<runItems, hasMore, nextCursor>>
       ELSE /\ runItems' = IF fetches[i].cursor # ""
                             THEN Append(runItems, PageOf(i))
                             ELSE <<PageOf(i)>>
            /\ hasMore' = fetches[i].data.has_more
            /\ nextCursor' = fetches[i].data.next_cursor
  /\ loading' = FALSE
  /\ fetches' = [fetches EXCEPT ![i].state = "done"]
  /\ UNCHANGED statusFilter
  /\ UNCHANGED offRunsPageVars

NextRunsPage ==
  \/ RunsPageMount
  \/ \E f \in StatusFilters : SetStatusFilter(f)
  \/ HandleSearch
  \/ HandleLoadMore
  \/ \E i \in 1..MaxFetches, a \in RunsAnswers : RunsAnswer(i, a)
  \/ \E i \in 1..MaxFetches : RunsFail(i)
  \/ \E i \in 1..MaxFetches : FetchRunsAfter(i)

SpecRunsPage == Init /\ [][NextRunsPage]_vars

(* --------------------------- run detail page --------------------------- *)
\* the effect at mount: fetchRun sets the run (its summary.passed)
FetchRun(passed) ==
  /\ runState = "loading"
  /\ runState' = IF passed THEN "passed" ELSE "failed"
  /\ UNCHANGED <<rerunning, rerunError, navigated, reruns, creatingFixTask, fixTasks>>
  /\ UNCHANGED offDetailVars

\* Retry is rendered for a failed run only, Re-run for every loaded run
RerunRendered(b) ==
  IF b = "retry" THEN runState = "failed" ELSE runState \in {"passed", "failed"}

\* variant: only the Re-run button looks at the flag
RerunDisabled_retryfree(b, flag) == b = "rerun" /\ flag

\* the disabled attribute of the Retry and Re-run buttons
RerunDisabled(b, flag) == flag

\* a click on Retry or Re-run: handleRerun up to its await fetch
HandleRerun(b) ==
  /\ ~navigated
  /\ Len(reruns) < MaxReruns
  /\ RerunRendered(b)
  /\ ~RerunDisabled(b, rerunning)
  /\ rerunning' = TRUE
  /\ rerunError' = ""
  /\ reruns' = Append(reruns, [state |-> "fetching", button |-> b,
                               answer |-> [ok |-> FALSE, trace_id |-> "",
                                           error |-> ""]])
  /\ UNCHANGED <<navigated, runState, creatingFixTask, fixTasks>>
  /\ UNCHANGED offDetailVars

\* POST /api/runs/[run_id]/rerun answers call i
RerunAnswer(i, a) ==
  /\ i \in 1..Len(reruns)
  /\ reruns[i].state = "fetching"
  /\ reruns' = [reruns EXCEPT ![i].state = "answered", ![i].answer = a]
  /\ UNCHANGED <<rerunning, rerunError, navigated, runState, creatingFixTask, fixTasks>>
  /\ UNCHANGED offDetailVars

\* the fetch of call i rejects
RerunFetchFail(i) ==
  /\ i \in 1..Len(reruns)
  /\ reruns[i].state = "fetching"
  /\ reruns' = [reruns EXCEPT ![i].state = "rejected"]
  /\ UNCHANGED <<rerunning, rerunError, navigated, runState, creatingFixTask, fixTasks>>
  /\ UNCHANGED offDetailVars

\* handleRerun i resumes after its await: router.push or setRerunError,
\* and setRerunning(false) in finally
HandleRerunAfter(i) ==
  /\ i \in 1..Len(reruns)
  /\ reruns[i].state \in {"answered", "rejected"}
  /\ IF reruns[i].state = "rejected"
       THEN rerunError' = "fetch failed" /\ UNCHANGED navigated
     ELSE IF ~reruns[i].answer.ok
       THEN rerunError' = reruns[i].answer.error /\ UNCHANGED navigated
     ELSE navigated' = TRUE /\ UNCHANGED rerunError
  /\ rerunning' = FALSE
  /\ reruns' = [reruns EXCEPT ![i].state = "done"]
  /\ UNCHANGED <<runState, creatingFixTask, fixTasks>>
  /\ UNCHANGED offDetailVars

\* a click on Fix Task (rendered for a failed run): handleFixTask up to
\* its await fetch
HandleFixTask ==
  /\ ~navigated
  /\ Len(fixTasks) < MaxReruns
  /\ runState = "failed"
  /\ ~creatingFixTask
  /\ creatingFixTask' = TRUE
  /\ fixTasks' = Append(fixTasks, [state |-> "fetching", ok |-> FALSE])
  /\ UNCHANGED <<rerunning, rerunError, navigated, reruns, runState>>
  /\ UNCHANGED offDetailVars

\* POST /api/runs/[run_id]/fix-task answers call i, or its fetch rejects
FixTaskAnswer(i, success) ==
  /\ i \in 1..Len(fixTasks)
  /\ fixTasks[i].state = "fetching"
  /\ fixTasks' = [fixTasks EXCEPT ![i].state = "answered", ![i].ok = success]
  /\ UNCHANGED <<rerunning, rerunError, navigated, reruns, runState, creatingFixTask>>
  /\ UNCHANGED offDetailVars

\* handleFixTask i resumes after its await: setFixTaskResult or
\* setRerunError, and setCreatingFixTask(false) in finally
HandleFixTaskAfter(i) ==
  /\ i \in 1..Len(fixTasks)
  /\ fixTasks[i].state = "answered"
  /\ rerunError' = IF fixTasks[i].ok THEN rerunError
                   ELSE "Failed to create fix task"
  /\ creatingFixTask' = FALSE
  /\ fixTasks' = [fixTasks EXCEPT ![i].state = "done"]
  /\ UNCHANGED <<rerunning, navigated, reruns, runState>>
  /\ UNCHANGED offDetailVars

NextDetail ==
  \/ \E passed \in BOOLEAN : FetchRun(passed)
  \/ \E b \in RerunButtons : HandleRerun(b)
  \/ \E i \in 1..MaxReruns, a \in RerunAnswers : RerunAnswer(i, a)
  \/ \E i \in 1..MaxReruns : RerunFetchFail(i)
  \/ \E i \in 1..MaxReruns : HandleRerunAfter(i)
  \/ HandleFixTask
  \/ \E i \in 1..MaxReruns, success \in BOOLEAN : FixTaskAnswer(i, success)
  \/ \E i \in 1..MaxReruns : HandleFixTaskAfter(i)

SpecDetail == Init /\ [][NextDetail]_vars

(* ======================= properties of the routes ===================== *)
AlnumChars ==
  {"a","b","c","d","e","f","g","h","i","j","k","l","m","n","o","p","q","r",
   "s","t","u","v","w","x","y","z","0","1","2","3","4","5","6","7","8","9"}

TasksUrl == RELAY_API_URL \o "/tasks"

RerunSucceeded(c) == kind[c] = "rerun" /\ pc[c] = "done" /\ ok(result[c].status)
FixSucceeded(c) == kind[c] = "fix" /\ pc[c] = "done" /\ ok(result[c].status)

\* the relay answered the n-th fetch of call c with a non-success status
UpstreamFailed(c, n) ==
  /\ Len(upstream[c]) >= n
  /\ upstream[c][n].type = "http"
  /\ ~ok(upstream[c][n].status)

(* C1: a successful rerun of run R returns trace_id = "tr_rerun_" R "_"    *)
(* followed by 8 characters of [a-z0-9] and parent_run_id = R, and the     *)
(* task it submitted carries that trace_id and parent_run_id = R.          *)
C1_RerunTraceShape ==
  \A c \in CallIds :
    RerunSucceeded(c) =>
      LET R == run_id[c]
          t == result[c].body.trace_id
          n == Len(t)
      IN  /\ n = Len("tr_rerun_") + Len(R) + 1 + 8
          /\ SubSeq(t, 1, n - 8) = "tr_rerun_" \o R \o "_"
          /\ \A i \in (n - 7)..n : SubSeq(t, i, i) \in AlnumChars
          /\ result[c].body.parent_run_id = R
          /\ \E s \in sent : s.call = c /\ s.method = "POST" /\ s.url = TasksUrl
          /\ \A s \in sent : (s.call = c /\ s.url = TasksUrl) =>
                               /\ s.body.trace_id = t
                               /\ s.body.parent_run_id = R

\* a rerun succeeded whose suffix holds letters and digits
C1_Witness ==
  \E c \in CallIds :
    /\ RerunSucceeded(c)
    /\ LET t == result[c].body.trace_id IN
         /\ SubSeq(t, Len(t), Len(t)) # "a"
         /\ \E i \in (Len(t) - 7)..Len(t) : SubSeq(t, i, i) = "9"

C3_TaskFetchFailure ==
  \A c \in CallIds :
    (kind[c] = "rerun" /\ UpstreamFailed(c, 1)) =>
      /\ pc[c] = "done"
      /\ ~ok(result[c].status)
      /\ endsWith(result[c].body.error, upstream[c][1].body)
      /\ \A s \in sent : s.call = c => s.url # TasksUrl
      /\ \A i \in 1..Len(tasks) : tasks[i].call # c

\* a rerun whose task fetch was answered 500 "upstream down" has returned
C3_Witness ==
  \E c \in CallIds :
    /\ kind[c] = "rerun" /\ pc[c] = "done"
    /\ UpstreamFailed(c, 1)
    /\ upstream[c][1].status = 500
    /\ upstream[c][1].body = "upstream down"

(* C4: when the task fetch or the submission of a rerun, or the relay call *)
(* of fix-task, is answered with a non-success status, the result carries  *)
(* that status code and the upstream body text unchanged.                  *)
C4_UpstreamErrorSurfaced ==
  \A c \in CallIds :
    (kind[c] \in {"rerun", "fix"} /\ pc[c] = "done"
       /\ UpstreamFailed(c, Len(upstream[c]))) =>
      LET u == upstream[c][Len(upstream[c])] IN
        /\ result[c].status = u.status
        /\ endsWith(result[c].body.error, u.body)

\* a rerun failed at its submission step and a fix-task was answered 404
C4_Witness ==
  /\ \E c \in CallIds : /\ kind[c] = "rerun" /\ pc[c] = "done"
                        /\ Len(upstream[c]) = 2 /\ UpstreamFailed(c, 2)
  /\ \E c \in CallIds : /\ kind[c] = "fix" /\ pc[c] = "done"
                        /\ UpstreamFailed(c, 1) /\ upstream[c][1].status = 404

(* C5: the successful rerun calls on a run R made as many task submissions *)
(* as there are calls, each accepted as its own task with parent_run_id =  *)
(* R, and each task gets its own new run with parent_run_id = R.           *)
C5_NoDedup ==
  \A R \in Targets :
    LET S   == {c \in CallIds : RerunSucceeded(c) /\ run_id[c] = R}
        Sub == {s \in sent : s.call \in S /\ s.url = TasksUrl}
        T   == {i \in 1..Len(tasks) : tasks[i].call \in S}
        Made == {i \in T : tasks[i].run_id # "pending"}
    IN  /\ Cardinality(Sub) = Cardinality(S)
        /\ Cardinality(T) = Cardinality(S)
        /\ \A s \in Sub : s.body.parent_run_id = R
        /\ \A i \in T : tasks[i].parent_run_id = R
        /\ \A i \in Made : /\ tasks[i].run_id \in DOMAIN runs
                           /\ runs[tasks[i].run_id].parent_run_id = R
        /\ Cardinality({tasks[i].run_id : i \in Made}) = Cardinality(Made)

\* two reruns of the same run succeeded and both new runs exist
C5_Witness ==
  \E c1, c2 \in CallIds :
    /\ c1 # c2
    /\ RerunSucceeded(c1) /\ RerunSucceeded(c2)
    /\ run_id[c1] = run_id[c2]
    /\ Cardinality({n \in DOMAIN runs : runs[n].parent_run_id = run_id[c1]}) = 2

(* C6: two distinct rerun calls never return the same trace_id.            *)
C6_TraceIdsDistinct ==
  \A c1, c2 \in CallIds :
    (c1 # c2 /\ RerunSucceeded(c1) /\ RerunSucceeded(c2)) =>
      result[c1].body.trace_id # result[c2].body.trace_id

\* the filenames the interface names as fetchable
AllowList == {"patch.diff", "stdout.log", "stderr.log", "result.json",
              "conversation.jsonl"}

(* C7: an artifact fetch whose filename is outside the allow-list is       *)
(* answered 400 (invalid filename) and no request for it reaches the relay.*)
C7_DisallowedRejected ==
  \A c \in CallIds :
    (kind[c] = "artifact" /\ filename[c] \notin AllowList) =>
      /\ pc[c] = "done"
      /\ result[c].status = 400
      /\ result[c].body.error = "Invalid filename"
      /\ Len(upstream[c]) = 0
      /\ \A s \in sent : s.call # c /\ ~endsWith(s.url, "/" \o filename[c])

\* both a name with path segments and a plain name were asked for
C7_Witness ==
  /\ \E c \in CallIds : kind[c] = "artifact" /\ filename[c] = "../etc/passwd"
  /\ \E c \in CallIds : kind[c] = "artifact" /\ filename[c] = "notes.txt"

(* C8: an artifact fetch for any of the five allow-listed filenames is not *)
(* rejected as an invalid name and is forwarded to the relay.              *)
C8_AllowListForwarded ==
  \A c \in CallIds :
    (kind[c] = "artifact" /\ filename[c] \in AllowList) =>
      /\ ~(result[c].status = 400 /\ pc[c] = "done" /\ Len(upstream[c]) = 0)
      /\ \E s \in sent : s.call = c /\ endsWith(s.url, "/artifacts/" \o filename[c])

(* C20: a batch of n >= 1 items is answered with exactly n per-item        *)
(* results in item order; the result of an item the relay accepted is a    *)
(* success carrying the relay's task_id, the result of any other item is   *)
(* a failure carrying the relay's status and error text (or the message    *)
(* of the rejected fetch); one request per item was sent whatever happened *)
(* to earlier items; and the top-level success flag is true exactly when   *)
(* every item succeeded.                                                   *)
C20_PerItemResults ==
  (submitPc = "done" /\ Len(items) >= 1) =>
    LET n  == Len(items)
        rs == submitResult.body.results IN
      /\ submitResult.status = 200
      /\ Len(rs) = n
      /\ Len(submitUpstream) = n
      /\ Len(submitSent) = n
      /\ \A i \in 1..n :
           LET u == submitUpstream[i] IN
             /\ rs[i].item = items[i]
             /\ submitSent[i].url = TasksUrl
             /\ submitSent[i].body.project_root = "/home/fumi/" \o items[i].project
             /\ rs[i].success <=> (u.type = "http" /\ ok(u.status))
             /\ rs[i].success => rs[i].task_id = u.data.task_id
             /\ (u.type = "http" /\ ~ok(u.status)) =>
                  /\ endsWith(rs[i].error, ": " \o u.body)
                  /\ rs[i].error = "HTTP " \o NatToStr(u.status) \o ": " \o u.body
             /\ u.type = "throw" => rs[i].error = u.message
      /\ submitResult.body.success <=> (\A i \in 1..n : rs[i].success)

\* a batch of two whose first item the relay rejected and whose second it
\* accepted has been answered
C20_Witness ==
  /\ submitPc = "done"
  /\ Len(items) = 2
  /\ submitUpstream[1].type = "http" /\ submitUpstream[1].status = 500
  /\ ~submitResult.body.results[1].success
  /\ submitResult.body.results[2].success
  /\ Len(tasks) = 1

ProxyKinds == Endpoints \cup {"artifact"}

(* C21: whenever a proxy endpoint (runs list, run stats, artifacts, task   *)
(* payload, CI-fix run, learning stats, learning signals) has received a   *)
(* non-success upstream response, its answer carries the upstream status   *)
(* code and the upstream error message.                                    *)
C21_UpstreamErrorForwarded ==
  \A c \in CallIds :
    (kind[c] \in ProxyKinds /\ pc[c] = "done" /\ UpstreamFailed(c, 1)) =>
      /\ result[c].status = upstream[c][1].status
      /\ Contains(result[c].body.error, upstream[c][1].body)

(* C24: every filter supplied to the runs list request (status, trace_id,  *)
(* provider, model, since) is part of the query the route sends to the     *)
(* backend.                                                                *)
C24_FiltersForwarded ==
  \A c \in CallIds :
    (kind[c] = "runs" /\ pc[c] # "idle") =>
      \A f \in {"status", "trace_id", "provider", "model", "since"} :
        query[c][f] # "" =>
          \E s \in sent :
            s.call = c /\ Contains(s.url, f \o "=" \o query[c][f])

(* C26: the relay status starts as checking; after a health check has      *)
(* completed it is connected exactly when the health endpoint reported     *)
(* the relay as connected to the check that completed last, and            *)
(* disconnected otherwise, also when that check failed; it never returns   *)
(* to checking; and once the polling is cancelled no check is started.     *)
C26_RelayStatus ==
  /\ relayStatus = "checking"
  /\ [](IF lastDone = 0 THEN relayStatus = "checking"
        ELSE /\ relayStatus \in {"connected", "disconnected"}
             /\ relayStatus = "connected" <=>
                  (checks[lastDone].state = "done"
                     /\ checks[lastDone].relay_api = "connected"))
  /\ [][/\ relayStatus # "checking" => relayStatus' # "checking"
        /\ polling = "cancelled" => Len(checks') = Len(checks)]_vars

\* a check that found the relay unhealthy completed after one that found
\* it connected, and the polling has been cancelled
C26_Witness ==
  /\ polling = "cancelled"
  /\ Len(checks) = 2
  /\ checks[1].state = "done" /\ checks[1].relay_api = "connected"
  /\ checks[2].state = "done" /\ checks[2].relay_api = "unhealthy"
  /\ lastDone = 2

(* C22: every artifact fetch and every task dispatch call (rerun,          *)
(* fix-task) that has started eventually completes, also when the relay    *)
(* never answers.                                                          *)
C22_CallsTerminate ==
  \A c \in CallIds :
    (kind[c] \in {"rerun", "fix", "artifact"} /\ pc[c] # "done")
      ~> (pc[c] = "done")

InFlight == { i \in 1..Len(submits) : submits[i].state # "done" }

(* C27: on the actions page and the release page a submission request is   *)
(* sent only in a state where the selection is non-empty, no submission is *)
(* in flight and the relay status is connected; at most one submission is  *)
(* in flight; and the submitting flag is set exactly while one is in       *)
(* flight, so it is cleared on every completion path.                      *)
C27_GuardedSubmission ==
  /\ [](Cardinality(InFlight) <= 1 /\ (submitting <=> InFlight # {}))
  /\ [][Len(submits') > Len(submits) =>
          /\ Len(selected) > 0
          /\ InFlight = {}
          /\ ~submitting
          /\ relayStatus = "connected"]_vars

\* on the release page two submissions were sent one after the other and
\* both completed, the second one successfully
C27_Witness ==
  /\ view = "release"
  /\ Len(submits) = 2
  /\ submits[1].state = "done" /\ submits[2].state = "done"
  /\ submits[2].answer.success
  /\ ~submitting

(* C29: in the Codex tab, every feature proposal whose checkbox was        *)
(* selected when the submit button was clicked is among the items picked   *)
(* for submission.                                                         *)
C29_SelectedProposalsSubmitted ==
  lastClick.view = "codex" =>
    \A i \in 1..Len(CodexProposals) :
      has(lastClick.selected, CodexCheckboxKeys[i]) =>
        \E j \in 1..Len(lastClick.items) :
          lastClick.items[j].task = CodexProposals[i].suggestion

(* C28: every page in the displayed list of the runs page was fetched      *)
(* under the status filter that was selected when the page was put into    *)
(* the list, and a page fetched with a cursor was appended while that      *)
(* cursor was the list's next cursor.                                      *)
C28_NoStaleResponse ==
  \A k \in 1..Len(runItems) :
    /\ runItems[k].filter = runItems[k].selected
    /\ runItems[k].cursor # "" => runItems[k].cursor = runItems[k].expected

RerunsInFlight == { i \in 1..Len(reruns) : reruns[i].state # "done" }

(* C30: the Retry and Re-run buttons share the rerunning flag: a click     *)
(* starts exactly one rerun request and only while none is pending, so at  *)
(* most one is pending, and the flag is set exactly while a request is     *)
(* pending, so it is cleared when the request completes, successfully or   *)
(* not.                                                                    *)
C30_OneRerunInFlight ==
  /\ [](Cardinality(RerunsInFlight) <= 1 /\ (rerunning <=> RerunsInFlight # {}))
  /\ [][Len(reruns') > Len(reruns) =>
          /\ Len(reruns') = Len(reruns) + 1
          /\ RerunsInFlight = {}
          /\ ~rerunning]_vars

\* on a failed run a rerun started with Retry failed, then one started
\* with Re-run succeeded, and the flag is clear
C30_Witness ==
  /\ runState = "failed"
  /\ Len(reruns) = 2
  /\ reruns[1].button = "retry" /\ reruns[1].state = "done" /\ ~reruns[1].answer.ok
  /\ reruns[2].button = "rerun" /\ reruns[2].state = "done" /\ reruns[2].answer.ok
  /\ ~rerunning
  /\ navigated

====
